---- MODULE Spec2Model ----
(***************************************************************************)
(* Text preprocessing and similarity detection of Chinese_language_process *)
(* (chinese_text_preprocessor.py, input_processor.py,                      *)
(* input_processor_port.py, compare_similarity_port.py,                    *)
(* compare_similarity.py, vectorize.py).                                   *)
(*                                                                         *)
(* A text is a sequence of Unicode code points; a token is a text; a       *)
(* similarity is a number of tenths (6 stands for 0.6).                    *)
(***************************************************************************)
EXTENDS Integers, Sequences, FiniteSets, TLC

(***************************************************************************)
(* Bounds of the model.                                                    *)
(***************************************************************************)
\* longest enumerated input text of the preprocessing entry points
MaxLen == 3
\* longest enumerated stop-word file content
MaxFileLen == 4
\* most rows of a corpus
MaxRows == 2

(***************************************************************************)
(* Code points and the character classes of Python's re module (str        *)
(* patterns, Unicode matching), restricted to ASCII, the full-width forms  *)
(* block, U+3000 and the CJK unified ideographs.                           *)
(***************************************************************************)
\* the code points the enumerated inputs are made of
ch == [A |-> 65, B |-> 66, Slash |-> 47, Dot |-> 46, One |-> 49, Space |-> 32,
       Newline |-> 10, Underscore |-> 95, Percent |-> 37, i |-> 105, p |-> 112,
       a |-> 97, b |-> 98,
       FullA |-> 65313, FullSlash |-> 65295, FullOne |-> 65297,
       IdeographicSpace |-> 12288, Han |-> 26381]

\* [A-Za-z]
AsciiLetter == (65..90) \cup (97..122)
\* [0-9]
AsciiDigit == 48..57
\* \d : ASCII digits and the full-width digits U+FF10..U+FF19
Digit == AsciiDigit \cup (65296..65305)
\* \s and str.isspace / str.strip
Whitespace == (9..13) \cup (28..32) \cup {ch.IdeographicSpace}
\* the CJK unified ideographs
Han == 19968..40959
\* \w : alphanumerics and the underscore
WordChar == AsciiLetter \cup Digit \cup {ch.Underscore} \cup (65313..65338) \cup (65345..65370) \cup Han

Min(S) == CHOOSE x \in S : \A y \in S : x <= y

Max(S) == CHOOSE x \in S : \A y \in S : x >= y

\* the texts over alphabet of length at most n
RECURSIVE TextsUpTo(_, _)
TextsUpTo(alphabet, n) ==
    IF n = 0 THEN {<<>>}
    ELSE LET shorter == TextsUpTo(alphabet, n - 1)
         IN shorter \cup {Append(t, c) : t \in shorter, c \in alphabet}

\* text[from..] (1-based, empty when from is past the end)
Drop(text, from) == SubSeq(text, from, Len(text))

\* length of the longest prefix of text all of whose characters are in class
RunLen(text, class) ==
    LET bad == {i \in 1..Len(text) : text[i] \notin class}
    IN IF bad = {} THEN Len(text) ELSE Min(bad) - 1

\* re.sub(class+, repl, text): every maximal run of class becomes repl
RECURSIVE SubRuns(_, _, _)
SubRuns(text, class, repl) ==
    IF text = <<>> THEN <<>>
    ELSE IF Head(text) \in class
         THEN repl \o SubRuns(Drop(text, RunLen(text, class) + 1), class, repl)
         ELSE <<Head(text)>> \o SubRuns(Tail(text), class, repl)

\* re.sub(r'[^\w\s]', ' ', text): each such character becomes one space
SubSpecial(text) ==
    [i \in 1..Len(text) |->
        IF text[i] \in WordChar \/ text[i] \in Whitespace THEN text[i] ELSE ch.Space]

\* str.strip()
strip(text) ==
    LET keep == {i \in 1..Len(text) : text[i] \notin Whitespace}
    IN IF keep = {} THEN <<>> ELSE SubSeq(text, Min(keep), Max(keep))

\* whether pat occurs in text at position p
OccursAt(text, pat, p) ==
    /\ p + Len(pat) - 1 <= Len(text)
    /\ SubSeq(text, p, p + Len(pat) - 1) = pat

\* whether pat is a substring of text
Contains(text, pat) == \E p \in 1..Len(text) : OccursAt(text, pat, p)

\* str.replace(pat, ''): the non-overlapping occurrences, left to right
RECURSIVE replace(_, _)
replace(text, pat) ==
    IF text = <<>> THEN <<>>
    ELSE IF OccursAt(text, pat, 1)
         THEN replace(Drop(text, Len(pat) + 1), pat)
         ELSE <<Head(text)>> \o replace(Tail(text), pat)

\* whether [A-Za-z][^\w\s][A-Za-z] matches text at position p
SpecialAt(text, p) ==
    /\ p + 2 <= Len(text)
    /\ text[p] \in AsciiLetter
    /\ text[p + 1] \notin WordChar
    /\ text[p + 1] \notin Whitespace
    /\ text[p + 2] \in AsciiLetter

\* re.findall(r'([A-Za-z][^\w\s][A-Za-z])', text): the non-overlapping
\* matches found scanning left to right, in order
RECURSIVE findall_special(_)
findall_special(text) ==
    IF text = <<>> THEN <<>>
    ELSE IF SpecialAt(text, 1)
         THEN <<SubSeq(text, 1, 3)>> \o findall_special(Drop(text, 4))
         ELSE findall_special(Tail(text))

\* for pattern in patterns: text = text.replace(pattern, '')
RECURSIVE replace_all(_, _)
replace_all(text, patterns) ==
    IF patterns = <<>> THEN text
    ELSE replace_all(replace(text, Head(patterns)), Tail(patterns))

Range(s) == {s[i] : i \in 1..Len(s)}

(***************************************************************************)
(* The segmenter jieba.cut, an external library.  Whitespace and any       *)
(* character outside its word blocks is yielded alone; inside a block a    *)
(* run of ASCII alphanumerics is one word, and so is a run of ideographs   *)
(* (the dictionary that splits such a run further is not modelled).        *)
(***************************************************************************)
AsciiAlnum == AsciiLetter \cup AsciiDigit

RECURSIVE cut(_)
cut(text) ==
    IF text = <<>> THEN <<>>
    ELSE LET n == IF Head(text) \in AsciiAlnum THEN RunLen(text, AsciiAlnum)
                  ELSE IF Head(text) \in Han THEN RunLen(text, Han)
                  ELSE 1
         IN <<SubSeq(text, 1, n)>> \o cut(Drop(text, n + 1))

\* str.isspace(): non-empty and all whitespace
isspace(word) == word # <<>> /\ \A i \in 1..Len(word) : word[i] \in Whitespace

(***************************************************************************)
(* chinese_text_preprocessor (and input_processor, the same code).         *)
(***************************************************************************)
\* the shifted-range mutant of full_to_half: the letters keep their width
full_to_half_digits_only(s) ==
    [i \in 1..Len(s) |->
        IF 65281 <= s[i] /\ s[i] <= 65312 THEN s[i] - 65248
        ELSE IF s[i] = 12288 THEN 32 ELSE s[i]]

full_to_half(s) ==
    [i \in 1..Len(s) |->
        IF 65281 <= s[i] /\ s[i] <= 65374 THEN s[i] - 65248
        ELSE IF s[i] = 12288 THEN 32 ELSE s[i]]

normalize_text(text) == full_to_half(text)

remove_special_characters(text) ==
    LET t1 == SubSpecial(text)
        t2 == SubRuns(t1, Digit, <<ch.Space>>)
    IN strip(SubRuns(t2, Whitespace, <<ch.Space>>))

remove_stop_words(text, stop_words) ==
    {word \in Range(cut(text)) : word \notin stop_words}

\* extract_special_patterns: the returned set and the text left in
\* self.cleaned_text
extract_special_patterns(text) ==
    LET patterns == findall_special(text)
    IN [special_patterns |-> Range(patterns),
        cleaned_text |-> replace_all(text, patterns)]

\* preprocess, given the value it reads back from self.cleaned_text
preprocess_rest(special_patterns, cleaned, stop_words) ==
    LET t1 == normalize_text(cleaned)
        t2 == remove_special_characters(t1)
        words == remove_stop_words(t2, stop_words)
    IN {word \in words : strip(word) # <<>>} \cup special_patterns

\* chinese_text_preprocessor.preprocess as one call on an instance: the
\* returned TokenSet and the value the call leaves in self.cleaned_text
preprocess(text, stop_words) ==
    LET ex == extract_special_patterns(text)
    IN [tokens |-> preprocess_rest(ex.special_patterns, ex.cleaned_text, stop_words),
        cleaned_text |-> ex.cleaned_text]

(***************************************************************************)
(* InputProcessor of the /process service (input_processor_port.py).       *)
(***************************************************************************)
\* returns the cleaned text; the matched patterns are not kept
InputProcessor_extract_special_patterns(text) ==
    replace_all(text, findall_special(text))

InputProcessor_normalize_text(text) ==
    [i \in 1..Len(text) |->
        IF 65281 <= text[i] /\ text[i] <= 65374 THEN text[i] - 65248
        ELSE IF text[i] = 12288 THEN 32 ELSE text[i]]

InputProcessor_preprocess(text, stop_words) ==
    LET t1 == InputProcessor_extract_special_patterns(text)
        t2 == InputProcessor_normalize_text(t1)
        t3 == remove_special_characters(t2)
        words == remove_stop_words(t3, stop_words)
    IN {word \in words : strip(word) # <<>>}

\* whether \b holds in text before position p (p = Len(text) + 1: at the end)
WordBoundary(text, p) ==
    LET before == p > 1 /\ text[p - 1] \in WordChar
        after == p <= Len(text) /\ text[p] \in WordChar
    IN before # after

\* whether text[p..q] is [0-9]{1,3}
DigitGroup(text, p, q) ==
    /\ q - p + 1 \in 1..3
    /\ \A k \in p..q : text[k] \in AsciiDigit

\* whether \b(?:[0-9]{1,3}\.){3}[0-9]{1,3}\b matches text[p..q]
IpAt(text, p, q) ==
    /\ WordBoundary(text, p)
    /\ WordBoundary(text, q + 1)
    /\ \E d1, d2, d3 \in p..q :
          /\ d1 < d2 /\ d2 < d3
          /\ text[d1] = ch.Dot /\ text[d2] = ch.Dot /\ text[d3] = ch.Dot
          /\ DigitGroup(text, p, d1 - 1)
          /\ DigitGroup(text, d1 + 1, d2 - 1)
          /\ DigitGroup(text, d2 + 1, d3 - 1)
          /\ DigitGroup(text, d3 + 1, q)

\* InputProcessor.extract_ip_addresses: set(re.findall(ip_pattern, text)),
\* the leftmost-longest non-overlapping matches
RECURSIVE extract_ip_from(_, _)
extract_ip_from(text, p) ==
    IF p > Len(text) THEN {}
    ELSE LET ends == {q \in p..Len(text) : IpAt(text, p, q)}
         IN IF ends = {} THEN extract_ip_from(text, p + 1)
            ELSE {SubSeq(text, p, Max(ends))} \cup extract_ip_from(text, Max(ends) + 1)

extract_ip_addresses(text) == extract_ip_from(text, 1)

\* the reserved token '%ip'
IP_SENTINEL == <<ch.Percent, ch.i, ch.p>>

(***************************************************************************)
(* TextPreprocessor of the /similarity_check service                       *)
(* (compare_similarity_port.py).                                           *)
(***************************************************************************)
\* ' '.join(words)
RECURSIVE join(_)
join(words) ==
    IF words = <<>> THEN <<>>
    ELSE IF Len(words) = 1 THEN Head(words)
    ELSE Head(words) \o <<ch.Space>> \o join(Tail(words))

\* [w for w in words if keep(w)] for the filter of TextPreprocessor.preprocess
RECURSIVE keep_words(_, _)
keep_words(words, stop_words) ==
    IF words = <<>> THEN <<>>
    ELSE IF Head(words) \notin stop_words /\ ~isspace(Head(words))
         THEN <<Head(words)>> \o keep_words(Tail(words), stop_words)
         ELSE keep_words(Tail(words), stop_words)

TextPreprocessor_preprocess(text, stop_words) ==
    LET t1 == SubSpecial(text)
        t2 == SubRuns(t1, Digit, <<>>)
    IN join(keep_words(cut(t2), stop_words))

\* a space-joined token string read back as a set of tokens (str.split)
RECURSIVE split(_)
split(s) ==
    IF s = <<>> THEN {}
    ELSE IF Head(s) \in Whitespace THEN split(Tail(s))
    ELSE LET ws == {i \in 1..Len(s) : s[i] \in Whitespace}
             n == IF ws = {} THEN Len(s) ELSE Min(ws) - 1
         IN {SubSeq(s, 1, n)} \cup split(Drop(s, n + 1))

(***************************************************************************)
(* State.                                                                  *)
(***************************************************************************)
VARIABLES
    \* the preprocessing entry points, run on one text
    text,           \* the raw input text
    stop_words,     \* self.stop_words of every preprocessor instance
    cleaned_text,   \* self.cleaned_text of the two instances that keep one
    results,        \* what each preprocess call returned
    processed_text, \* the string TextPreprocessor.preprocess returned
    response,       \* the response of the /process handler
    \* the normalization steps, run on a half-width text and its full-width form
    half_text,      \* the half-width text H
    normalized,     \* the normalized text of each form
    \* load_stop_words
    stop_file,      \* the stop-word file: whether it exists, and its content
    loaded,         \* what load_stop_words returned
    \* find_high_similarity_pairs
    cosine_sim_matrix, \* the N x N cosine similarities, in tenths
    data,           \* the 'Question' column of the corpus
    threshold,      \* the threshold argument, in tenths
    pairs,          \* what find_high_similarity_pairs returned
    \* the query-vs-corpus operations
    corpus,         \* the 'Processed Words Set' column, row by row
    query,          \* the request text, or the processed input of the script
    fitted,         \* the vocabulary the vectorizer was fit to, and the query's terms
    cosine_similarities, \* the similarity of the query to each row, in tenths
    sim_response,   \* the response of the /similarity_check handler
    ranked,         \* the outcome of the ranking script
    \* one input at two thresholds
    thresholds,     \* the two threshold arguments t1 <= t2, in tenths
    pairs_at,       \* what find_high_similarity_pairs returned at each
    decision_at,    \* what check_similarity returned at each
    \* extract_special_patterns on one text
    extracted,      \* the set extract_special_patterns returned
    \* callers of preprocess on one instance
    instance,       \* the class of the instance the callers share
    pc,             \* where each caller is in preprocess
    call_text,      \* the text argument of each caller's call
    special_patterns, \* the local special_patterns of each caller's call
    calls           \* the calls that returned: text argument and TokenSet

preVars == <<text, stop_words, cleaned_text, results, processed_text, response>>

foldVars == <<half_text, normalized>>

stopVars == <<stop_file, loaded>>

pairVars == <<cosine_sim_matrix, data, threshold, pairs>>

simVars == <<corpus, query, fitted, cosine_similarities, sim_response, ranked>>

monoVars == <<thresholds, pairs_at, decision_at>>

callVars == <<instance, pc, call_text, special_patterns, calls>>

extVars == <<monoVars, extracted, callVars>>

vars == <<preVars, foldVars, stopVars, pairVars, simVars, extVars>>

EntryPoints == {"chinese_text_preprocessor", "input_processor", "InputProcessor", "TextPreprocessor"}

Stateful == {"chinese_text_preprocessor", "input_processor"}

PreAlphabet == {ch.A, ch.Slash, ch.One, ch.Space, ch.FullA, ch.Han}

\* texts with an IP-address-shaped substring, longer than the enumerated ones
SampleTexts ==
    { <<ch.One, ch.Dot, ch.One, ch.Dot, ch.One, ch.Dot, ch.One>>,
      <<ch.A, ch.Space, ch.One, ch.Dot, ch.One, ch.Dot, ch.One, ch.Dot, ch.One>> }

Texts == TextsUpTo(PreAlphabet, MaxLen) \cup SampleTexts

StopWordSets == { {}, {<<ch.A>>, <<ch.Han>>} }

NotCalled == [done |-> FALSE, tokens |-> {}]

Unset == [has |-> FALSE, value |-> <<>>]

NoResponse == [status |-> 0, processed_text |-> {}]

PreIdle ==
    /\ cleaned_text = [c \in Stateful |-> Unset]
    /\ results = [e \in EntryPoints |-> NotCalled]
    /\ processed_text = Unset
    /\ response = NoResponse

Forms == {"full", "half"}

FoldIdle ==
    /\ half_text = <<>>
    /\ normalized = [f \in Forms |-> Unset]

NoFile == [exists |-> FALSE, content |-> <<>>]

NotLoaded == [done |-> FALSE, raised |-> FALSE, stop_words |-> {}]

StopIdle ==
    /\ stop_file = NoFile
    /\ loaded = NotLoaded

NoPairs == [done |-> FALSE, list |-> <<>>]

PairIdle ==
    /\ cosine_sim_matrix = <<>>
    /\ data = <<>>
    /\ threshold = 0
    /\ pairs = NoPairs

NotFitted == [has |-> FALSE, vocabulary |-> {}, query_terms |-> {}]

NoSimResponse == [status |-> 0, kind |-> "none", similarity_score |-> 0]

NotRanked == [status |-> "none", top_n |-> 0, top_indices |-> <<>>, list |-> <<>>]

SimIdle ==
    /\ corpus = <<>>
    /\ query = <<>>
    /\ fitted = NotFitted
    /\ cosine_similarities = <<>>
    /\ sim_response = NoSimResponse
    /\ ranked = NotRanked

Runs == {1, 2}

NoDecision == [done |-> FALSE, raised |-> FALSE, kind |-> "none", similarity_score |-> 0]

MonoIdle ==
    /\ thresholds = <<0, 0>>
    /\ pairs_at = [r \in Runs |-> NoPairs]
    /\ decision_at = [r \in Runs |-> NoDecision]

NotExtracted == [done |-> FALSE, special_patterns |-> {}]

ExtractIdle == extracted = NotExtracted

Callers == {1, 2}

CallIdle ==
    /\ instance = "chinese_text_preprocessor"
    /\ pc = [c \in Callers |-> "idle"]
    /\ call_text = [c \in Callers |-> <<>>]
    /\ special_patterns = [c \in Callers |-> {}]
    /\ calls = <<>>

ExtIdle == MonoIdle /\ ExtractIdle /\ CallIdle

OthersIdleForPre == FoldIdle /\ StopIdle /\ PairIdle /\ SimIdle

PreInit ==
    /\ text \in Texts
    /\ stop_words \in StopWordSets
    /\ PreIdle
    /\ ExtIdle
    /\ OthersIdleForPre

\* preprocessor.preprocess(text) on the instance of class c
InstancePreprocess(c) ==
    /\ ~results[c].done
    /\ LET r == preprocess(text, stop_words)
       IN /\ cleaned_text' = [cleaned_text EXCEPT ![c] = [has |-> TRUE, value |-> r.cleaned_text]]
          /\ results' = [results EXCEPT ![c] = [done |-> TRUE, tokens |-> r.tokens]]
    /\ UNCHANGED <<text, stop_words, processed_text, response>>
    /\ UNCHANGED <<foldVars, stopVars, pairVars, simVars, extVars>>

\* chinese_text_preprocessor.preprocess, the batch entry point
BatchPreprocess == InstancePreprocess("chinese_text_preprocessor")

\* input_processor.preprocess, the single-query entry point
QueryPreprocess == InstancePreprocess("input_processor")

\* the /process handler
process_text ==
    /\ response.status = 0
    /\ IF text = <<>>
       THEN /\ response' = [status |-> 400, processed_text |-> {}]
            /\ UNCHANGED results
       ELSE LET processed == InputProcessor_preprocess(text, stop_words)
            IN /\ results' = [results EXCEPT !["InputProcessor"] = [done |-> TRUE, tokens |-> processed]]
               /\ response' = [status |-> 200, processed_text |-> processed \cup {IP_SENTINEL}]
    /\ UNCHANGED <<text, stop_words, cleaned_text, processed_text>>
    /\ UNCHANGED <<foldVars, stopVars, pairVars, simVars, extVars>>

\* preprocessor.preprocess(input_text) of the /similarity_check service
TextPreprocessorPreprocess ==
    /\ ~results["TextPreprocessor"].done
    /\ LET joined == TextPreprocessor_preprocess(text, stop_words)
       IN /\ processed_text' = [has |-> TRUE, value |-> joined]
          /\ results' = [results EXCEPT !["TextPreprocessor"] = [done |-> TRUE, tokens |-> split(joined)]]
    /\ UNCHANGED <<text, stop_words, cleaned_text, response>>
    /\ UNCHANGED <<foldVars, stopVars, pairVars, simVars, extVars>>

PreNext ==
    \/ BatchPreprocess
    \/ QueryPreprocess
    \/ process_text
    \/ TextPreprocessorPreprocess

SpecPre == PreInit /\ [][PreNext]_vars

(***************************************************************************)
(* Claims about the preprocessing entry points.                            *)
(***************************************************************************)
\* C1: for one text and one stop-word set, every preprocessing entry point
\* that has returned (batch, single-query, /process, /similarity_check read
\* as a set of tokens) returned the same token set.
C1_SameTokenSetAtEveryEntryPoint ==
    \A e1, e2 \in EntryPoints :
        results[e1].done /\ results[e2].done => results[e1].tokens = results[e2].tokens

\* C2: every substring <Latin letter><non-word non-space character><Latin
\* letter> of the text is a member of the TokenSet returned by preprocess of
\* chinese_text_preprocessor, input_processor and InputProcessor.
C2_SpecialTokenPreserved ==
    \A e \in {"chinese_text_preprocessor", "input_processor", "InputProcessor"} :
        results[e].done =>
            \A p \in 1..Len(text) :
                SpecialAt(text, p) => SubSeq(text, p, p + 2) \in results[e].tokens

\* C8: the token list returned by /process contains '%ip' exactly when the
\* text contains an IP-address-shaped substring, and no returned token
\* contains a digit.
C8_SentinelIffIpAddress ==
    response.status = 200 =>
        /\ (IP_SENTINEL \in response.processed_text) <=> (extract_ip_addresses(text) # {})
        /\ \A token \in response.processed_text :
              \A k \in 1..Len(token) : token[k] \notin Digit

(***************************************************************************)
(* Full-width folding: the normalization steps of preprocess run on a      *)
(* half-width text and on the same text written in full-width characters.  *)
(***************************************************************************)
HalfAlphabet == {ch.A, ch.Slash, ch.One, ch.Space, ch.Underscore}

\* the full-width form of a half-width text
Widen(h) ==
    [k \in 1..Len(h) |-> IF h[k] = ch.Space THEN ch.IdeographicSpace ELSE h[k] + 65248]

\* preprocess up to the segmenter: extract_special_patterns, normalize_text,
\* remove_special_characters
NormalizedText(t) ==
    remove_special_characters(normalize_text(extract_special_patterns(t).cleaned_text))

FoldInit ==
    /\ half_text \in TextsUpTo(HalfAlphabet, MaxLen)
    /\ normalized = [f \in Forms |-> Unset]
    /\ text = <<>>
    /\ stop_words = {}
    /\ PreIdle
    /\ ExtIdle
    /\ StopIdle
    /\ PairIdle
    /\ SimIdle

NormalizeHalf ==
    /\ ~normalized["half"].has
    /\ normalized' = [normalized EXCEPT !["half"] = [has |-> TRUE, value |-> NormalizedText(half_text)]]
    /\ UNCHANGED <<half_text, preVars, stopVars, pairVars, simVars, extVars>>

NormalizeFull ==
    /\ ~normalized["full"].has
    /\ normalized' = [normalized EXCEPT !["full"] = [has |-> TRUE, value |-> NormalizedText(Widen(half_text))]]
    /\ UNCHANGED <<half_text, preVars, stopVars, pairVars, simVars, extVars>>

FoldNext == NormalizeHalf \/ NormalizeFull

SpecFold == FoldInit /\ [][FoldNext]_vars

BothNormalized == normalized["half"].has /\ normalized["full"].has

\* C3 as claimed: a full-width text and its half-width equivalent have the
\* same normalized text.
C3_FullWidthSameAsHalfWidth ==
    BothNormalized => normalized["full"].value = normalized["half"].value

\* C3 as amended: a full-width text and its half-width equivalent have the
\* same normalized text when the half-width text contains no special-token
\* shape <Latin letter><non-word non-space character><Latin letter>.
C3_FullWidthSameAsHalfWidthWithoutSpecial ==
    BothNormalized /\ findall_special(half_text) = <<>>
        => normalized["full"].value = normalized["half"].value

\* a text of a letter, a punctuation mark and a digit, folded to a word
C3_Witness ==
    /\ BothNormalized
    /\ findall_special(half_text) = <<>>
    /\ half_text = <<ch.A, ch.Slash, ch.One>>
    /\ normalized["full"].value = <<ch.A>>

(***************************************************************************)
(* load_stop_words (the same code in all four classes).                    *)
(***************************************************************************)
FileAlphabet == {ch.A, ch.Space, ch.Newline}

\* for line in file: the lines of the content, each with its newline
RECURSIVE lines_of(_)
lines_of(content) ==
    IF content = <<>> THEN <<>>
    ELSE LET nl == {k \in 1..Len(content) : content[k] = ch.Newline}
             n == IF nl = {} THEN Len(content) ELSE Min(nl)
         IN <<SubSeq(content, 1, n)>> \o lines_of(Drop(content, n + 1))

\* the mutant of load_stop_words that keeps the lines untrimmed
load_stop_words_unstripped(file) ==
    IF file.exists
    THEN [done |-> TRUE, raised |-> FALSE, stop_words |-> Range(lines_of(file.content))]
    ELSE [done |-> TRUE, raised |-> FALSE, stop_words |-> {}]

load_stop_words(file) ==
    IF file.exists
    THEN [done |-> TRUE, raised |-> FALSE,
          stop_words |-> {strip(line) : line \in Range(lines_of(file.content))}]
    ELSE [done |-> TRUE, raised |-> FALSE, stop_words |-> {}]

StopInit ==
    /\ stop_file \in {NoFile} \cup
           {[exists |-> TRUE, content |-> c] : c \in TextsUpTo(FileAlphabet, MaxFileLen)}
    /\ loaded = NotLoaded
    /\ text = <<>>
    /\ stop_words = {}
    /\ PreIdle
    /\ ExtIdle
    /\ FoldIdle
    /\ PairIdle
    /\ SimIdle

\* __init__: self.stop_words = self.load_stop_words(stop_words_file)
LoadStopWords ==
    /\ ~loaded.done
    /\ loaded' = load_stop_words(stop_file)
    /\ stop_words' = loaded'.stop_words
    /\ UNCHANGED <<stop_file, text, cleaned_text, results, processed_text, response, foldVars, pairVars, simVars, extVars>>

StopNext == LoadStopWords

SpecStop == StopInit /\ [][StopNext]_vars

\* the trimmed lines of the file
TrimmedLines == {strip(line) : line \in Range(lines_of(stop_file.content))}

\* C9 as claimed: load_stop_words returns the non-empty trimmed lines of the
\* file, and the empty set, without raising, when the file does not exist.
C9_NonEmptyTrimmedLines ==
    loaded.done =>
        /\ ~loaded.raised
        /\ stop_file.exists => loaded.stop_words = TrimmedLines \ {<<>>}
        /\ ~stop_file.exists => loaded.stop_words = {}

\* C9 as amended: load_stop_words returns the trimmed lines of the file, the
\* empty string among them exactly when a line is blank, and the empty set,
\* without raising, when the file does not exist.
C9_TrimmedLines ==
    loaded.done =>
        /\ ~loaded.raised
        /\ stop_file.exists =>
              /\ \A w \in loaded.stop_words : w = strip(w)
              /\ \A line \in Range(lines_of(stop_file.content)) :
                    \E w \in loaded.stop_words :
                        \/ w = <<>> /\ \A k \in 1..Len(line) : line[k] \in Whitespace
                        \/ w # <<>> /\ Contains(line, w) /\ Len(strip(line)) = Len(w)
              /\ \A w \in loaded.stop_words :
                    \E line \in Range(lines_of(stop_file.content)) :
                        \/ w = <<>> /\ \A k \in 1..Len(line) : line[k] \in Whitespace
                        \/ w # <<>> /\ Contains(line, w) /\ Len(strip(line)) = Len(w)
        /\ ~stop_file.exists => loaded.stop_words = {}

\* a file with a stop word, a blank line and the stop word again
C9_Witness ==
    /\ loaded.done
    /\ stop_file.exists
    /\ stop_file.content = <<ch.A, ch.Newline, ch.Newline, ch.A>>
    /\ loaded.stop_words = {<<>>, <<ch.A>>}

(***************************************************************************)
(* find_high_similarity_pairs (compare_similarity.py).                     *)
(***************************************************************************)
\* most rows of the corpus of the pairwise scan
MaxN == 3

\* the default threshold 0.6, in tenths
DEFAULT_THRESHOLD == 6

\* similarities of two different rows, around the threshold
OffDiagonal == {5, 6, 7}

Thresholds == {5, DEFAULT_THRESHOLD, 7}

Questions == {"q1", "q2"}

UpperPairs(n) == {ij \in (1..n) \X (1..n) : ij[1] < ij[2]}

\* cosine_similarity(X): symmetric, every row is as similar to itself as can be
SimilarityMatrices(n) ==
    { [i \in 1..n |-> [j \in 1..n |->
          IF i = j THEN 10 ELSE IF i < j THEN u[<<i, j>>] ELSE u[<<j, i>>]]] :
      u \in [UpperPairs(n) -> OffDiagonal] }

\* the mutant of exceeds_threshold with the comparison turned round
below_threshold(similarity, t) == similarity < t

\* the mutant of exceeds_threshold that also reports a similarity equal to
\* the threshold
reaches_threshold(similarity, t) == similarity >= t

\* if cosine_sim_matrix[i, j] > threshold
exceeds_threshold(similarity, t) == similarity > t

\* the two loops of find_high_similarity_pairs, from row i and column j on
RECURSIVE pairs_from(_, _, _, _, _)
pairs_from(matrix, questions, t, i, j) ==
    IF i > Len(questions) THEN <<>>
    ELSE IF j > Len(questions) THEN pairs_from(matrix, questions, t, i + 1, i + 2)
    ELSE (IF exceeds_threshold(matrix[i][j], t)
          THEN << <<questions[i], questions[j]>> >>
          ELSE <<>>)
         \o pairs_from(matrix, questions, t, i, j + 1)

find_high_similarity_pairs(matrix, questions, t) == pairs_from(matrix, questions, t, 1, 2)

PairInit ==
    /\ \E n \in 0..MaxN :
          /\ data \in [1..n -> Questions]
          /\ cosine_sim_matrix \in SimilarityMatrices(n)
    /\ threshold \in Thresholds
    /\ pairs = NoPairs
    /\ text = <<>>
    /\ stop_words = {}
    /\ PreIdle
    /\ ExtIdle
    /\ FoldIdle
    /\ StopIdle
    /\ SimIdle

FindHighSimilarityPairs ==
    /\ ~pairs.done
    /\ pairs' = [done |-> TRUE, list |-> find_high_similarity_pairs(cosine_sim_matrix, data, threshold)]
    /\ UNCHANGED <<cosine_sim_matrix, data, threshold, preVars, foldVars, stopVars, simVars, extVars>>

PairNext == FindHighSimilarityPairs

SpecPairs == PairInit /\ [][PairNext]_vars

\* the index pairs i < j whose similarity is strictly above the threshold
Hits == {ij \in UpperPairs(Len(data)) : cosine_sim_matrix[ij[1]][ij[2]] > threshold}

\* row-major order of index pairs
Before(a, b) == a[1] < b[1] \/ (a[1] = b[1] /\ a[2] < b[2])

\* the k-th hit in row-major order
Hit(k) == CHOOSE h \in Hits : Cardinality({g \in Hits : Before(g, h)}) = k - 1

\* C4: find_high_similarity_pairs returns exactly the pairs (Question i,
\* Question j) with i < j whose similarity is strictly greater than the
\* threshold, each once, and no other pair.
C4_ExactlyPairsAboveThreshold ==
    pairs.done =>
        /\ Len(pairs.list) = Cardinality(Hits)
        /\ \A k \in 1..Len(pairs.list) :
              pairs.list[k] = <<data[Hit(k)[1]], data[Hit(k)[2]]>>

\* three rows at the default threshold: one pair above it, one equal to it,
\* one below it
C4_Witness ==
    /\ pairs.done
    /\ Len(data) = 3
    /\ threshold = DEFAULT_THRESHOLD
    /\ cosine_sim_matrix[1][2] = 7
    /\ cosine_sim_matrix[1][3] = 6
    /\ cosine_sim_matrix[2][3] = 5
    /\ Len(pairs.list) = 1

(***************************************************************************)
(* The query-vs-corpus operations: the /similarity_check handler           *)
(* (compare_similarity_port.py) and the ranking script (vectorize.py).     *)
(* A row vector of the TF-IDF matrix is modelled by its support, the terms *)
(* with a non-zero weight; the cosine similarities are any values that     *)
(* agree with the supports (0 exactly when two supports are disjoint).     *)
(***************************************************************************)
\* top_n=5
DEFAULT_TOP_N == 5

TopNs == {1, 2, DEFAULT_TOP_N}

\* similarities in tenths: none, below, at and above the default threshold
SimValues == {0, 5, DEFAULT_THRESHOLD, 7}

Docs ==
    { <<ch.A, ch.B>>, <<ch.B, ch.A>>, <<ch.A, ch.B, ch.Space, ch.B, ch.A>>, <<ch.A>> }

Queries == Docs \cup { <<ch.B, ch.B>>, <<>> }

SimStopWordSets == { {}, {<<ch.B, ch.A>>} }

\* str.lower()
lower(doc) ==
    [k \in 1..Len(doc) |->
        IF doc[k] \in 65..90 \/ doc[k] \in 65313..65338 THEN doc[k] + 32 ELSE doc[k]]

\* re.findall(r'(?u)\b\w\w+\b', doc): the runs of two or more word characters
RECURSIVE token_pattern(_)
token_pattern(doc) ==
    IF doc = <<>> THEN {}
    ELSE IF Head(doc) \in WordChar
         THEN LET n == RunLen(doc, WordChar)
              IN (IF n >= 2 THEN {SubSeq(doc, 1, n)} ELSE {})
                 \cup token_pattern(Drop(doc, n + 1))
         ELSE token_pattern(Tail(doc))

\* the analyzer of TfidfVectorizer(): the terms of a document
analyze(doc) == token_pattern(lower(doc))

\* vectorizer.fit: the vocabulary, one column per term of the documents
fit_vocabulary(docs) == UNION {analyze(docs[k]) : k \in 1..Len(docs)}

\* vectorizer.transform: the support of each document's row
transform(vocabulary, docs) == [k \in 1..Len(docs) |-> analyze(docs[k]) \cap vocabulary]

\* cosine_similarity(input, dataset): one similarity per dataset row
cosine_similarity(input, dataset) ==
    { row \in [1..Len(dataset) -> SimValues] :
        \A k \in 1..Len(dataset) : (row[k] = 0) <=> (input \cap dataset[k] = {}) }

\* the mutant of all_text that leaves the query out of the fitted texts
all_text_without_query(rows, processed) == rows

\* all_text = data['Processed Words Set'].tolist() + [processed_text]
all_text(rows, processed) == Append(rows, processed)

\* vectorize_data of the /similarity_check service; fit_transform raises
\* ValueError on an empty vocabulary
port_vectorize_data(rows, input_text, stops) ==
    LET processed == TextPreprocessor_preprocess(input_text, stops)
        texts == all_text(rows, processed)
        vocabulary == fit_vocabulary(texts)
        X == transform(vocabulary, texts)
    IN IF vocabulary = {}
       THEN [raised |-> TRUE, vocabulary |-> {}, query_terms |-> {},
             dataset_vector |-> <<>>, input_vector |-> {}]
       ELSE [raised |-> FALSE, vocabulary |-> vocabulary, query_terms |-> analyze(processed),
             dataset_vector |-> SubSeq(X, 1, Len(X) - 1), input_vector |-> X[Len(X)]]

\* the mutant of too_similar that also rejects at the threshold
at_least_threshold(max_similarity, t) == max_similarity >= t

\* if max_similarity > threshold
too_similar(max_similarity, t) == max_similarity > t

Raised == [raised |-> TRUE, kind |-> "failure", similarity_score |-> 0]

\* the mutant of check_similarity that answers for a corpus without rows
check_similarity_of_nothing(cosine_sim, t) ==
    IF cosine_sim = <<>> THEN [raised |-> FALSE, kind |-> "distinct", similarity_score |-> 0]
    ELSE LET max_similarity == Max(Range(cosine_sim))
         IN [raised |-> FALSE,
             kind |-> IF too_similar(max_similarity, t) THEN "too_similar" ELSE "distinct",
             similarity_score |-> max_similarity]

\* check_similarity, given the similarities cosine_similarity computed;
\* cosine_similarity raises ValueError for a dataset without rows
check_similarity(cosine_sim, t) ==
    IF cosine_sim = <<>> THEN Raised
    ELSE LET max_similarity == Max(Range(cosine_sim))
         IN [raised |-> FALSE,
             kind |-> IF too_similar(max_similarity, t) THEN "too_similar" ELSE "distinct",
             similarity_score |-> max_similarity]

\* cosine_similarities.argsort(): the indices in ascending order of
\* similarity; the default sort is not stable, equal values come in any order
argsort(row) ==
    { order \in Permutations(1..Len(row)) :
        \A k \in 1..(Len(row) - 1) : row[order[k]] <= row[order[k + 1]] }

\* seq[-n:] for n > 0
last_n(seq, n) == SubSeq(seq, Max({1, Len(seq) - n + 1}), Len(seq))

\* seq[::-1]
reversed(seq) == [k \in 1..Len(seq) |-> seq[Len(seq) + 1 - k]]

\* the mutant of top_indices_of without the reversal
top_indices_ascending(order, n) == last_n(order, n)

\* cosine_similarities.argsort()[-top_n:][::-1]
top_indices_of(order, n) == reversed(last_n(order, n))

NoOperationYet == sim_response.status = 0 /\ ranked.status = "none"

SimInit ==
    /\ \E n \in 0..MaxRows : corpus \in [1..n -> Docs]
    /\ query \in Queries
    /\ stop_words \in SimStopWordSets
    /\ fitted = NotFitted
    /\ cosine_similarities = <<>>
    /\ sim_response = NoSimResponse
    /\ ranked = NotRanked
    /\ text = <<>>
    /\ PreIdle
    /\ ExtIdle
    /\ FoldIdle
    /\ StopIdle
    /\ PairIdle

Failure(status) == [status |-> status, kind |-> "failure", similarity_score |-> 0]

\* the /similarity_check handler
similarity_check ==
    /\ NoOperationYet
    /\ IF query = <<>>
       THEN /\ sim_response' = Failure(400)
            /\ UNCHANGED <<fitted, cosine_similarities>>
       ELSE LET v == port_vectorize_data(corpus, query, stop_words)
            IN IF v.raised
               THEN /\ sim_response' = Failure(500)
                    /\ UNCHANGED <<fitted, cosine_similarities>>
               ELSE /\ fitted' = [has |-> TRUE, vocabulary |-> v.vocabulary,
                                  query_terms |-> v.query_terms]
                    /\ \E row \in cosine_similarity(v.input_vector, v.dataset_vector) :
                          LET result == check_similarity(row, DEFAULT_THRESHOLD)
                          IN /\ cosine_similarities' = row
                             /\ sim_response' =
                                   IF result.raised THEN Failure(500)
                                   ELSE [status |-> 200, kind |-> result.kind,
                                         similarity_score |-> result.similarity_score]
    /\ UNCHANGED <<corpus, query, ranked, preVars, foldVars, stopVars, pairVars, extVars>>

\* vectorize.main, with the top_n argument of find_most_similar_questions;
\* vectorize_data raises on an empty vocabulary and the script ends
find_most_similar ==
    /\ NoOperationYet
    /\ LET vocabulary == fit_vocabulary(corpus)
           tfidf_matrix == transform(vocabulary, corpus)
           new_input_tfidf == analyze(query) \cap vocabulary
       IN IF vocabulary = {}
          THEN /\ ranked' = [NotRanked EXCEPT !.status = "raised"]
               /\ UNCHANGED <<fitted, cosine_similarities>>
          ELSE /\ fitted' = [has |-> TRUE, vocabulary |-> vocabulary,
                             query_terms |-> analyze(query)]
               /\ \E n \in TopNs :
                  \E row \in cosine_similarity(new_input_tfidf, tfidf_matrix) :
                  \E order \in argsort(row) :
                     LET top_indices == top_indices_of(order, n)
                     IN /\ cosine_similarities' = row
                        /\ ranked' = [status |-> "returned", top_n |-> n,
                                      top_indices |-> top_indices,
                                      list |-> [k \in 1..Len(top_indices) |->
                                                  [Question |-> top_indices[k],
                                                   similarity |-> row[top_indices[k]]]]]
    /\ UNCHANGED <<corpus, query, sim_response, preVars, foldVars, stopVars, pairVars, extVars>>

SimNext == similarity_check \/ find_most_similar

SpecSim == SimInit /\ [][SimNext]_vars

(***************************************************************************)
(* Claims about the query-vs-corpus operations.                            *)
(***************************************************************************)
Returned == ranked.status = "returned"

\* the rows find_most_similar_questions returned
ReturnedRows == Range(ranked.top_indices)

MinOf(a, b) == IF a <= b THEN a ELSE b

\* the returned list holds the rows named by top_indices with their scores
ListMatchesIndices ==
    /\ Len(ranked.list) = Len(ranked.top_indices)
    /\ \A k \in 1..Len(ranked.list) :
          /\ ranked.list[k].Question = ranked.top_indices[k]
          /\ ranked.list[k].similarity = cosine_similarities[ranked.top_indices[k]]

\* C5 as claimed: find_most_similar_questions returns min(top_n, corpus
\* size) entries in descending order of similarity, and of two rows of equal
\* similarity the one with the smaller corpus index comes first, also where
\* the tie decides which row is kept at the cut-off.
C5_TopNFirstSeenWins ==
    Returned =>
        /\ ListMatchesIndices
        /\ Len(ranked.list) = MinOf(ranked.top_n, Len(corpus))
        /\ \A k, l \in 1..Len(ranked.list) :
              k < l =>
                 \/ ranked.list[k].similarity > ranked.list[l].similarity
                 \/ /\ ranked.list[k].similarity = ranked.list[l].similarity
                    /\ ranked.list[k].Question < ranked.list[l].Question
        /\ \A r \in ReturnedRows : \A x \in (1..Len(corpus)) \ ReturnedRows :
              \/ cosine_similarities[x] < cosine_similarities[r]
              \/ cosine_similarities[x] = cosine_similarities[r] /\ r < x

\* C5 as amended: for top_n >= 1, find_most_similar_questions returns
\* min(top_n, corpus size) different entries in descending order of
\* similarity, none less similar than a row left out; the order of rows of
\* equal similarity, and which of them is kept at the cut-off, is not fixed.
C5_TopNDescending ==
    Returned =>
        /\ ListMatchesIndices
        /\ Len(ranked.list) = MinOf(ranked.top_n, Len(corpus))
        /\ Cardinality(ReturnedRows) = Len(ranked.list)
        /\ \A k, l \in 1..Len(ranked.list) :
              k < l => ranked.list[k].similarity >= ranked.list[l].similarity
        /\ \A r \in ReturnedRows : \A x \in (1..Len(corpus)) \ ReturnedRows :
              cosine_similarities[x] <= cosine_similarities[r]

\* two rows of different similarity, the more similar second in the corpus,
\* and only one row asked for
C5_Witness ==
    /\ Returned
    /\ Len(corpus) = 2
    /\ ranked.top_n = 1
    /\ cosine_similarities = <<5, 7>>
    /\ ranked.top_indices = <<2>>

\* the terms of the corpus rows
CorpusTerms == UNION {analyze(corpus[k]) : k \in 1..Len(corpus)}

FittedBySimilarityCheck == fitted.has /\ sim_response.status # 0

FittedByRanking == fitted.has /\ ranked.status # "none"

C7_MaxAgainstThreshold ==
    sim_response.status = 200 =>
        /\ Len(cosine_similarities) = Len(corpus)
        /\ \E k \in 1..Len(corpus) : cosine_similarities[k] = sim_response.similarity_score
        /\ \A k \in 1..Len(corpus) : cosine_similarities[k] <= sim_response.similarity_score
        /\ sim_response.kind = "too_similar" <=> sim_response.similarity_score > DEFAULT_THRESHOLD
        /\ sim_response.kind = "distinct" <=> sim_response.similarity_score <= DEFAULT_THRESHOLD

\* the maximum equals the threshold and the answer is 'distinct enough'
C7_Witness ==
    /\ sim_response.status = 200
    /\ cosine_similarities = <<DEFAULT_THRESHOLD, 5>>
    /\ sim_response.similarity_score = DEFAULT_THRESHOLD
    /\ sim_response.kind = "distinct"

SimilarityRows == UNION { [1..m -> SimValues] : m \in 1..MaxRows }

MonoInit ==
    /\ \/ /\ \E n \in 0..MaxN :
                /\ data \in [1..n -> Questions]
                /\ cosine_sim_matrix \in SimilarityMatrices(n)
          /\ cosine_similarities = <<>>
       \/ /\ data = <<>>
          /\ cosine_sim_matrix = <<>>
          /\ cosine_similarities \in SimilarityRows
    /\ thresholds \in {tt \in Thresholds \X Thresholds : tt[1] <= tt[2]}
    /\ pairs_at = [r \in Runs |-> NoPairs]
    /\ decision_at = [r \in Runs |-> NoDecision]
    /\ threshold = 0
    /\ pairs = NoPairs
    /\ corpus = <<>>
    /\ query = <<>>
    /\ fitted = NotFitted
    /\ sim_response = NoSimResponse
    /\ ranked = NotRanked
    /\ text = <<>>
    /\ stop_words = {}
    /\ PreIdle
    /\ FoldIdle
    /\ StopIdle
    /\ ExtractIdle
    /\ CallIdle

\* find_high_similarity_pairs(cosine_sim_matrix, data, threshold=thresholds[r])
FindHighSimilarityPairsAt(r) ==
    /\ cosine_similarities = <<>>
    /\ ~pairs_at[r].done
    /\ pairs_at' = [pairs_at EXCEPT ![r] =
          [done |-> TRUE,
           list |-> find_high_similarity_pairs(cosine_sim_matrix, data, thresholds[r])]]
    /\ UNCHANGED <<thresholds, decision_at, extracted, callVars,
                   preVars, foldVars, stopVars, pairVars, simVars>>

\* check_similarity(input_vector, dataset_vector, threshold=thresholds[r])
CheckSimilarityAt(r) ==
    /\ cosine_similarities # <<>>
    /\ ~decision_at[r].done
    /\ decision_at' = [decision_at EXCEPT ![r] =
          [done |-> TRUE] @@ check_similarity(cosine_similarities, thresholds[r])]
    /\ UNCHANGED <<thresholds, pairs_at, extracted, callVars,
                   preVars, foldVars, stopVars, pairVars, simVars>>

MonoNext ==
    \/ \E r \in Runs : FindHighSimilarityPairsAt(r)
    \/ \E r \in Runs : CheckSimilarityAt(r)

SpecMono == MonoInit /\ [][MonoNext]_vars

\* a is b with some of its entries left out, the others in b's order
RECURSIVE IsSubsequence(_, _)
IsSubsequence(a, b) ==
    IF a = <<>> THEN TRUE
    ELSE IF b = <<>> THEN FALSE
    ELSE IF Head(a) = Head(b) THEN IsSubsequence(Tail(a), Tail(b))
    ELSE IsSubsequence(a, Tail(b))

BothPairsReported == pairs_at[1].done /\ pairs_at[2].done

BothDecided == decision_at[1].done /\ decision_at[2].done

\* C11: for one similarity matrix and corpus and two thresholds t1 <= t2,
\* the pairs find_high_similarity_pairs reports at t2 are among the pairs it
\* reports at t1, in the same order and no more of them; and when
\* check_similarity answers "too similar" at t2 for one row of similarities,
\* it answers "too similar" at t1 as well.
C11_ThresholdMonotone ==
    /\ BothPairsReported =>
          /\ IsSubsequence(pairs_at[2].list, pairs_at[1].list)
          /\ Range(pairs_at[2].list) \subseteq Range(pairs_at[1].list)
          /\ Len(pairs_at[2].list) <= Len(pairs_at[1].list)
    /\ (BothDecided /\ decision_at[2].kind = "too_similar") =>
          decision_at[1].kind = "too_similar"

\* both thresholds were tried on one matrix, the higher one keeping some of
\* the pairs of the lower one and dropping others
C11_Witness ==
    /\ BothPairsReported
    /\ thresholds[1] < thresholds[2]
    /\ pairs_at[2].list # <<>>
    /\ Len(pairs_at[2].list) < Len(pairs_at[1].list)

\* one row of similarities is too similar at the lower threshold only
C11_DecisionWitness ==
    /\ BothDecided
    /\ thresholds[1] < thresholds[2]
    /\ decision_at[1].kind = "too_similar"
    /\ decision_at[2].kind = "distinct"

(***************************************************************************)
(* extract_special_patterns on one text (chinese_text_preprocessor.py,     *)
(* input_processor.py): the returned set, and the text it leaves in        *)
(* self.cleaned_text for preprocess to go on with.                         *)
(***************************************************************************)
\* longest text given to extract_special_patterns
MaxExtractLen == 6

ExtractAlphabet == {ch.A, ch.B, ch.Slash}

ExtractTexts == TextsUpTo(ExtractAlphabet, MaxExtractLen)

ExtractInit ==
    /\ text \in ExtractTexts
    /\ instance \in Stateful
    /\ extracted = NotExtracted
    /\ stop_words = {}
    /\ PreIdle
    /\ pc = [c \in Callers |-> "idle"]
    /\ call_text = [c \in Callers |-> <<>>]
    /\ special_patterns = [c \in Callers |-> {}]
    /\ calls = <<>>
    /\ MonoIdle
    /\ OthersIdleForPre

\* special_patterns = self.extract_special_patterns(text)
ExtractSpecialPatterns ==
    /\ ~extracted.done
    /\ LET r == extract_special_patterns(text)
       IN /\ cleaned_text' = [cleaned_text EXCEPT ![instance] =
                [has |-> TRUE, value |-> r.cleaned_text]]
          /\ extracted' = [done |-> TRUE, special_patterns |-> r.special_patterns]
    /\ UNCHANGED <<text, stop_words, results, processed_text, response>>
    /\ UNCHANGED <<monoVars, callVars, foldVars, stopVars, pairVars, simVars>>

ExtractNext == ExtractSpecialPatterns

SpecExtract == ExtractInit /\ [][ExtractNext]_vars

\* C12: after extract_special_patterns has run, the text it left in
\* self.cleaned_text contains no occurrence of any pattern of the set it
\* returned.
C12_NoPatternLeftInCleanedText ==
    extracted.done =>
        \A pattern \in extracted.special_patterns :
            ~Contains(cleaned_text[instance].value, pattern)

(***************************************************************************)
(* Callers of preprocess on one instance (chinese_text_preprocessor.py,    *)
(* input_processor.py).  extract_special_patterns leaves the text it       *)
(* cleaned in the attribute self.cleaned_text and preprocess reads it      *)
(* back: a write and a read of the instance, with the caller's locals in   *)
(* between.                                                                *)
(***************************************************************************)
\* most calls of preprocess on the instance
MaxCalls == 3

\* text arguments whose cleaned texts and TokenSets all differ
CallTexts ==
    { <<ch.A>>,
      <<ch.Han>>,
      <<ch.A, ch.Slash, ch.A>>,
      <<ch.A, ch.Slash, ch.A, ch.Space, ch.Han>> }

\* the mutant of set_cleaned_text that leaves an attribute that exists alone
keep_cleaned_text(attribute, value) ==
    IF attribute.has THEN attribute ELSE [has |-> TRUE, value |-> value]

\* self.cleaned_text = text
set_cleaned_text(attribute, value) == [has |-> TRUE, value |-> value]

\* the calls made so far, returned or not
Started == Len(calls) + Cardinality({c \in Callers : pc[c] # "idle"})

CallInit ==
    /\ instance \in Stateful
    /\ stop_words \in StopWordSets
    /\ pc = [c \in Callers |-> "idle"]
    /\ call_text = [c \in Callers |-> <<>>]
    /\ special_patterns = [c \in Callers |-> {}]
    /\ calls = <<>>
    /\ text = <<>>
    /\ PreIdle
    /\ MonoIdle
    /\ ExtractIdle
    /\ OthersIdleForPre

\* caller c calls preprocess(t) on the instance
Call(c, t) ==
    /\ pc[c] = "idle"
    /\ Started < MaxCalls
    /\ call_text' = [call_text EXCEPT ![c] = t]
    /\ pc' = [pc EXCEPT ![c] = "extract"]
    /\ UNCHANGED <<instance, special_patterns, calls, monoVars, extracted>>
    /\ UNCHANGED <<preVars, foldVars, stopVars, pairVars, simVars>>

\* special_patterns = self.extract_special_patterns(text), which ends with
\* self.cleaned_text = text
Extract(c) ==
    /\ pc[c] = "extract"
    /\ LET r == extract_special_patterns(call_text[c])
       IN /\ cleaned_text' = [cleaned_text EXCEPT ![instance] =
                set_cleaned_text(cleaned_text[instance], r.cleaned_text)]
          /\ special_patterns' = [special_patterns EXCEPT ![c] = r.special_patterns]
    /\ pc' = [pc EXCEPT ![c] = "read"]
    /\ UNCHANGED <<instance, call_text, calls, monoVars, extracted>>
    /\ UNCHANGED <<text, stop_words, results, processed_text, response>>
    /\ UNCHANGED <<foldVars, stopVars, pairVars, simVars>>

\* text = self.cleaned_text and the rest of preprocess, up to return words
ReadCleanedText(c) ==
    /\ pc[c] = "read"
    /\ calls' = Append(calls,
          [caller |-> c,
           text |-> call_text[c],
           tokens |-> preprocess_rest(special_patterns[c],
                                      cleaned_text[instance].value, stop_words)])
    /\ pc' = [pc EXCEPT ![c] = "idle"]
    /\ UNCHANGED <<instance, call_text, special_patterns, monoVars, extracted>>
    /\ UNCHANGED <<preVars, foldVars, stopVars, pairVars, simVars>>

\* one caller: each call returns before the next is made
SeqNext ==
    \/ \E t \in CallTexts : Call(1, t)
    \/ Extract(1)
    \/ ReadCleanedText(1)

SpecSeq == CallInit /\ [][SeqNext]_vars

\* two callers, their steps in any order
ConcNext ==
    \/ \E c \in Callers, t \in CallTexts : Call(c, t)
    \/ \E c \in Callers : Extract(c)
    \/ \E c \in Callers : ReadCleanedText(c)

SpecConc == CallInit /\ [][ConcNext]_vars

\* what preprocess returns for a text on an instance nothing else has used
SequentialTokens(t) == preprocess(t, stop_words).tokens

\* C13: in any sequence of preprocess calls on one instance, what each call
\* returns is decided by its text argument and the stop-word set alone: it is
\* what a first call with that text returns, whatever cleaned_text earlier
\* calls left behind, and two calls with the same text return the same
\* TokenSet.
C13_ResultDependsOnTextOnly ==
    /\ \A k \in 1..Len(calls) : calls[k].tokens = SequentialTokens(calls[k].text)
    /\ \A j, k \in 1..Len(calls) :
          calls[j].text = calls[k].text => calls[j].tokens = calls[k].tokens

\* the same text was preprocessed before and after a call that left another
\* cleaned_text behind
C13_Witness ==
    /\ Len(calls) >= 3
    /\ calls[1].text = calls[3].text
    /\ calls[2].text # calls[1].text
    /\ extract_special_patterns(calls[2].text).cleaned_text
          # extract_special_patterns(calls[1].text).cleaned_text
    /\ calls[2].tokens # calls[1].tokens

\* C14: when two callers run preprocess on one instance at the same time,
\* each of them gets, under every interleaving of their steps, the TokenSet a
\* sequential preprocess of its own text gives.
C14_ConcurrentCallersGetSequentialResult ==
    \A c \in Callers : \A k \in 1..Len(calls) :
        calls[k].caller = c => calls[k].tokens = SequentialTokens(calls[k].text)

====
